---- MODULE Spec2Model ----
(***************************************************************************)
(* ESPVFD firmware (src/src/main.rs): network bring-up (connect_wifi),     *)
(* the MQTT delivery callback (handle_mqtt_message), the mpsc channel      *)
(* between them and the render loop of main.                               *)
(*                                                                         *)
(* Characters are Unicode code points (naturals); a String is a sequence   *)
(* of code points, its Rust len() is the sum of the UTF-8 widths.          *)
(* Display Client calls are assumed to succeed (every one is unwrap()ed).  *)
(***************************************************************************)
EXTENDS Integers, Sequences, FiniteSets

\* ---------------------------------------------------------------- bounds
\* number of events the MQTT client delivers to the callback
MaxEvents == 2
\* how many of the most recent Display Client calls are kept in vfdLog
MaxLog == 4
\* pulls-since-construction is counted up to this value (then saturates)
MaxPulls == 15

\* ------------------------------------------------------ program constants
FRAME_WIDTH == 12
FILLER == 46
REPLACEMENT_CHARACTER == 65533

VARIABLES pc, load_i, wifiErr, vfdLog, tick, queue, sent, received, events,
          text, scroller, pulls, vdState, wifiCall, evt

vars == <<pc, load_i, wifiErr, vfdLog, tick, queue, sent, received, events,
          text, scroller, pulls, vdState, wifiCall, evt>>

\* ------------------------------------------------------------- strings
Initializing == <<73,110,105,116,105,97,108,105,122,105,110,103>>
ConnectedText == <<99,111,110,110,101,99,116,101,100,32,32,32>>
SetText == <<115,101,116,45,116,101,120,116>>

RECURSIVE Repeat(_, _)
Repeat(c, n) == IF n = 0 THEN <<>> ELSE <<c>> \o Repeat(c, n - 1)

\* UTF-8 width of one char
Utf8Len(c) == IF c < 128 THEN 1 ELSE IF c < 2048 THEN 2 ELSE IF c < 65536 THEN 3 ELSE 4

\* str::len(): length in bytes
RECURSIVE ByteLen(_)
ByteLen(s) == IF s = <<>> THEN 0 ELSE Utf8Len(Head(s)) + ByteLen(Tail(s))

\* ------------------------------------------------------ Display Client
Display(f) == [op |-> "display", frame |-> f]
VdOn == [op |-> "vd_on", frame |-> <<>>]
VdOff == [op |-> "vd_off", frame |-> <<>>]

Logged(log, calls) ==
    LET s == log \o calls
    IN IF Len(s) > MaxLog THEN SubSeq(s, Len(s) - MaxLog + 1, Len(s)) ELSE s

NoTick == [kind |-> "none", recv |-> <<>>, repeat |-> FALSE, calls |-> <<>>, built |-> FALSE]
MainStep(k, calls) == [kind |-> k, recv |-> <<>>, repeat |-> FALSE, calls |-> calls, built |-> FALSE]

\* ------------------------------------------------------------ connect_wifi
\* "OOOOOOOOOOOO" with '*' replacing the slot load_i
ProgressFrame(i) == [k \in 1..12 |-> IF k = i + 1 THEN 42 ELSE 79]

WifiResults == {"ok", "err"}
QueryResults == {"true", "false", "err"}

\* variant: an error of a wireless call is taken for "still pending"
FailKeepsPolling(op) ==
    /\ wifiErr' = op
    /\ vfdLog' = Logged(vfdLog, <<Display(ProgressFrame(load_i))>>)
    /\ tick' = MainStep("progress", <<Display(ProgressFrame(load_i))>>)
    /\ load_i' = (load_i + 1) % 12
    /\ UNCHANGED pc

Fail(op) ==
    /\ pc' = "exit"
    /\ wifiErr' = op
    /\ tick' = MainStep("error", <<>>)
    /\ UNCHANGED <<load_i, vfdLog>>

\* variant: the counter is not reduced modulo 12
ProgressTickNoWrap ==
    /\ vfdLog' = Logged(vfdLog, <<Display(ProgressFrame(load_i))>>)
    /\ tick' = MainStep("progress", <<Display(ProgressFrame(load_i))>>)
    /\ load_i' = load_i + 1
    /\ UNCHANGED <<pc, wifiErr>>

\* body of each of the four polling loops
ProgressTick ==
    /\ vfdLog' = Logged(vfdLog, <<Display(ProgressFrame(load_i))>>)
    /\ tick' = MainStep("progress", <<Display(ProgressFrame(load_i))>>)
    /\ load_i' = (load_i + 1) % 12
    /\ UNCHANGED <<pc, wifiErr>>

Advance(next) ==
    /\ pc' = next
    /\ tick' = MainStep("wifi", <<>>)
    /\ UNCHANGED <<load_i, wifiErr, vfdLog>>

RenderVars == <<queue, sent, received, events, text, scroller, pulls, vdState, evt>>

\* the wireless call just made and what it returned
Called(op, r) == wifiCall' = [op |-> op, res |-> r]

SetConfiguration ==
    /\ pc = "set_configuration"
    /\ \E r \in WifiResults :
         /\ Called("set_configuration", r)
         /\ IF r = "err" THEN Fail("set_configuration") ELSE Advance("stop")
    /\ UNCHANGED RenderVars

Stop ==
    /\ pc = "stop"
    /\ \E r \in WifiResults :
         /\ Called("stop", r)
         /\ IF r = "err" THEN Fail("stop") ELSE Advance("wait_stopped")
    /\ UNCHANGED RenderVars

PollStopped ==
    /\ pc = "wait_stopped"
    /\ \E r \in QueryResults :
         /\ Called("is_started", r)
         /\ CASE r = "err" -> Fail("is_started")
              [] r = "true" -> ProgressTick
              [] r = "false" -> Advance("start")
    /\ UNCHANGED RenderVars

Start ==
    /\ pc = "start"
    /\ \E r \in WifiResults :
         /\ Called("start", r)
         /\ IF r = "err" THEN Fail("start") ELSE Advance("wait_started")
    /\ UNCHANGED RenderVars

\* variant: the loop waits while started and leaves on not started
PollStartedInverted ==
    /\ pc = "wait_started"
    /\ \E r \in QueryResults :
         /\ Called("is_started", r)
         /\ CASE r = "err" -> Fail("is_started")
              [] r = "true" -> ProgressTick
              [] r = "false" -> Advance("connect")
    /\ UNCHANGED RenderVars

PollStarted ==
    /\ pc = "wait_started"
    /\ \E r \in QueryResults :
         /\ Called("is_started", r)
         /\ CASE r = "err" -> Fail("is_started")
              [] r = "false" -> ProgressTick
              [] r = "true" -> Advance("connect")
    /\ UNCHANGED RenderVars

Connect ==
    /\ pc = "connect"
    /\ \E r \in WifiResults :
         /\ Called("connect", r)
         /\ IF r = "err" THEN Fail("connect") ELSE Advance("wait_connected")
    /\ UNCHANGED RenderVars

PollConnected ==
    /\ pc = "wait_connected"
    /\ \E r \in QueryResults :
         /\ Called("is_connected", r)
         /\ CASE r = "err" -> Fail("is_connected")
              [] r = "false" -> ProgressTick
              [] r = "true" -> Advance("wait_up")
    /\ UNCHANGED RenderVars

PollUp ==
    /\ pc = "wait_up"
    /\ \E r \in QueryResults :
         /\ Called("is_up", r)
         /\ CASE r = "err" -> Fail("is_up")
              [] r = "false" -> ProgressTick
              [] r = "true" -> Advance("confirm")
    /\ UNCHANGED RenderVars

\* vfd.display("connected   "), dwell, Ok(()); load_i goes out of scope
Confirm ==
    /\ pc = "confirm"
    /\ vfdLog' = Logged(vfdLog, <<Display(ConnectedText)>>)
    /\ tick' = MainStep("confirm", <<Display(ConnectedText)>>)
    /\ load_i' = 0
    /\ pc' = "get_mac"
    /\ UNCHANGED <<wifiErr, wifiCall>>
    /\ UNCHANGED RenderVars

\* ------------------------------------------------------------ main, startup
\* hardware addresses wifi.get_mac may return
Macs == {<<222, 173, 190, 239, 0, 42>>}

\* "{:02X}" of one octet
HexDigit(n) == IF n < 10 THEN 48 + n ELSE 55 + n
Hex2(b) == <<HexDigit(b \div 16), HexDigit(b % 16)>>

\* format!("{:02X}{:02X}{:02X}", mac[3], mac[4], mac[5])
DeviceId(mac) == Hex2(mac[4]) \o Hex2(mac[5]) \o Hex2(mac[6])

\* get_mac()?, then "ID <device_id>" shown for 5 s
GetMac ==
    /\ pc = "get_mac"
    /\ \E r \in WifiResults :
         IF r = "err"
         THEN /\ pc' = "exit"
              /\ tick' = MainStep("error", <<>>)
              /\ UNCHANGED vfdLog
         ELSE \E mac \in Macs :
              /\ pc' = "mqtt_new"
              /\ vfdLog' = Logged(vfdLog, <<Display(<<73, 68, 32>> \o DeviceId(mac))>>)
              /\ tick' = MainStep("id", <<Display(<<73, 68, 32>> \o DeviceId(mac))>>)
    /\ UNCHANGED <<load_i, wifiErr, wifiCall>>
    /\ UNCHANGED RenderVars

\* channel(); EspMqttClient::new(...).unwrap()
MqttNew ==
    /\ pc = "mqtt_new"
    /\ \E r \in WifiResults :
         /\ pc' = IF r = "err" THEN "panic" ELSE "subscribe"
         /\ tick' = MainStep(IF r = "err" THEN "error" ELSE "mqtt", <<>>)
    /\ UNCHANGED <<load_i, wifiErr, vfdLog, wifiCall>>
    /\ UNCHANGED RenderVars

\* mqtt_client.subscribe(...)?
Subscribe ==
    /\ pc = "subscribe"
    /\ \E r \in WifiResults :
         /\ pc' = IF r = "err" THEN "exit" ELSE "vd_off"
         /\ tick' = MainStep(IF r = "err" THEN "error" ELSE "mqtt", <<>>)
    /\ UNCHANGED <<load_i, wifiErr, vfdLog, wifiCall>>
    /\ UNCHANGED RenderVars

\* variant: the display is not switched off before the loop
LoopStartNoVdOff ==
    /\ pc = "vd_off"
    /\ pc' = "loop"
    /\ tick' = MainStep("loop_start", <<>>)
    /\ UNCHANGED <<load_i, wifiErr, wifiCall, evt, vfdLog, vdState>>
    /\ UNCHANGED <<queue, sent, received, events, text, scroller, pulls>>

\* vfd.vd_off(); text = String::new(); scroller = ScrollingText::new(&text, ..)
LoopStart ==
    /\ pc = "vd_off"
    /\ pc' = "loop"
    /\ vfdLog' = Logged(vfdLog, <<VdOff>>)
    /\ tick' = MainStep("loop_start", <<VdOff>>)
    /\ vdState' = "off"
    /\ UNCHANGED <<load_i, wifiErr, wifiCall, evt>>
    /\ UNCHANGED <<queue, sent, received, events, text, scroller, pulls>>

\* ------------------------------------------------------ delivery context
\* String::from_utf8_lossy on payloads made of ASCII bytes, two-byte
\* sequences and bytes that start no sequence (no 3- or 4-byte leads)
RECURSIVE FromUtf8Lossy(_)
FromUtf8Lossy(b) ==
    IF b = <<>> THEN <<>>
    ELSE IF b[1] < 128 THEN <<b[1]>> \o FromUtf8Lossy(Tail(b))
    ELSE IF /\ b[1] >= 194 /\ b[1] <= 223
            /\ Len(b) >= 2 /\ b[2] >= 128 /\ b[2] <= 191
         THEN <<(b[1] - 192) * 64 + (b[2] - 128)>> \o FromUtf8Lossy(Tail(Tail(b)))
    ELSE <<REPLACEMENT_CHARACTER>> \o FromUtf8Lossy(Tail(b))

\* variant: the topic is compared for equality
ContainsEquals(s, pat) == s = pat

\* str::contains
Contains(s, pat) ==
    \E i \in 0..(Len(s) - Len(pat)) : SubSeq(s, i + 1, i + Len(pat)) = pat

Some(t) == [some |-> TRUE, val |-> t]
None == [some |-> FALSE, val |-> <<>>]

\* "vfd-<id>/set-text", "vfd/log", no topic (a later chunk of a message)
Topics ==
    {Some(<<118, 102, 100, 45>> \o DeviceId(mac) \o <<47>> \o SetText) : mac \in Macs}
    \cup {Some(<<118, 102, 100, 47, 108, 111, 103>>), None}

\* message data: "", " ", ". ,", "HELLO", "HELLO.......", "HELLO, WORLD.",
\* " ...........", e-acute (C3 A9), the invalid byte FF
Datas ==
    { <<>>, <<32>>, <<46, 32, 44>>,
      <<72, 69, 76, 76, 79>>,
      <<72, 69, 76, 76, 79, 46, 46, 46, 46, 46, 46, 46>>,
      <<72, 69, 76, 76, 79, 44, 32, 87, 79, 82, 76, 68, 46>>,
      <<32, 46, 46, 46, 46, 46, 46, 46, 46, 46, 46, 46>>,
      <<195, 169>>, <<255>> }

\* the receiver lives in main's frame
RxAlive == pc \notin {"exit", "panic"}

\* variant: the payload is put at the front of the queue
HandleMqttMessagePrepend(topic, data) ==
    IF topic.some /\ Contains(topic.val, SetText) /\ RxAlive
    THEN /\ queue' = <<FromUtf8Lossy(data)>> \o queue
         /\ sent' = Append(sent, FromUtf8Lossy(data))
    ELSE UNCHANGED <<queue, sent>>

HandleMqttMessage(topic, data) ==
    IF topic.some /\ Contains(topic.val, SetText) /\ RxAlive
    THEN /\ queue' = Append(queue, FromUtf8Lossy(data))
         /\ sent' = Append(sent, FromUtf8Lossy(data))
    ELSE UNCHANGED <<queue, sent>>

\* variant: a rendezvous channel, send waits until the queue is empty
MqttReceivedWaits ==
    /\ pc \in {"vd_off", "loop"}
    /\ events < MaxEvents
    /\ queue = <<>>
    /\ events' = events + 1
    /\ \E topic \in Topics, data \in Datas :
         /\ evt' = [kind |-> "received", topic |-> topic, data |-> data]
         /\ HandleMqttMessage(topic, data)
    /\ UNCHANGED <<pc, load_i, wifiErr, vfdLog, tick, received, text, scroller, pulls,
                   vdState, wifiCall>>

\* the closure given to EspMqttClient::new, on Ok(Event::Received(m)), for
\* a message with data in D
Deliver(D) ==
    /\ pc \in {"vd_off", "loop"}
    /\ events < MaxEvents
    /\ events' = events + 1
    /\ \E topic \in Topics, data \in D :
         /\ evt' = [kind |-> "received", topic |-> topic, data |-> data]
         /\ HandleMqttMessage(topic, data)
    /\ UNCHANGED <<pc, load_i, wifiErr, vfdLog, tick, received, text, scroller, pulls,
                   vdState, wifiCall>>

MqttReceived == Deliver(Datas)

\* message data of the liveness specification: "", " ", "HELLO, WORLD."
LiveDatas ==
    { <<>>, <<32>>, <<72, 69, 76, 76, 79, 44, 32, 87, 79, 82, 76, 68, 46>> }

MqttReceivedLive == Deliver(LiveDatas)

\* variant: an event that is no message ends the program
MqttOtherPanics ==
    /\ pc \in {"subscribe", "vd_off", "loop"}
    /\ events < MaxEvents
    /\ events' = events + 1
    /\ evt' = [kind |-> "other", topic |-> None, data |-> <<>>]
    /\ pc' = "panic"
    /\ UNCHANGED <<load_i, wifiErr, vfdLog, tick, queue, sent, received, text,
                   scroller, pulls, vdState, wifiCall>>

\* variant: the client exists and delivers from the start of the program
MqttOtherEarly ==
    /\ events < MaxEvents
    /\ events' = events + 1
    /\ evt' = [kind |-> "other", topic |-> None, data |-> <<>>]
    /\ UNCHANGED <<pc, load_i, wifiErr, vfdLog, tick, queue, sent, received, text,
                   scroller, pulls, vdState, wifiCall>>

\* the closure on any other event (Connected, Subscribed, Err, ...)
MqttOther ==
    /\ pc \in {"subscribe", "vd_off", "loop"}
    /\ events < MaxEvents
    /\ events' = events + 1
    /\ evt' = [kind |-> "other", topic |-> None, data |-> <<>>]
    /\ UNCHANGED <<pc, load_i, wifiErr, vfdLog, tick, queue, sent, received, text,
                   scroller, pulls, vdState, wifiCall>>

\* --------------------------------------------------- Scrolling Text Engine
ScrollingTextNew(t) == [text |-> t, idx |-> 0]

\* the window of FRAME_WIDTH chars of the cyclically repeated text; the
\* cyclic repetition of an empty text has no chars, so its frame is empty
\* (the engine is the crate hcs_12ss59t, modelled after spec.md 4.1)
GetNextFrame(s) ==
    IF Len(s.text) = 0 THEN <<>>
    ELSE [k \in 1..FRAME_WIDTH |-> s.text[((s.idx + k - 1) % Len(s.text)) + 1]]

\* variant: the offset wraps at the frame width instead of the text length
GetNextStateWrapWidth(s) ==
    [s EXCEPT !.idx = IF Len(s.text) = 0 THEN 0 ELSE (s.idx + 1) % FRAME_WIDTH]

GetNextState(s) ==
    [s EXCEPT !.idx = IF Len(s.text) = 0 THEN 0 ELSE (s.idx + 1) % Len(s.text)]

\* ------------------------------------------------------------ render loop
\* variant: ',' is not in the blank set
IsBlankCharNoComma(c) == c \in {46, 32}

IsBlankChar(c) == c \in {46, 44, 32}
AllBlank(t) == \A k \in 1..Len(t) : IsBlankChar(t[k])

\* variant: short texts are padded with spaces
PadTextSpaces(t) ==
    IF ByteLen(t) < 12 THEN t \o Repeat(32, 12 - ByteLen(t)) ELSE t

PadText(t) ==
    IF ByteLen(t) < 12 THEN t \o Repeat(FILLER, 12 - ByteLen(t)) ELSE t

IsRepeat(t) == received # <<>> /\ received[Len(received)] = t

\* MaxPulls and MaxPulls + 1 both stand for "MaxPulls or more"
CountPull(n) == IF n < MaxPulls THEN n + 1 ELSE IF n = MaxPulls THEN MaxPulls + 1 ELSE MaxPulls

LoopFixed == <<pc, load_i, wifiErr, sent, events, wifiCall, evt>>

\* variant: the engine is rebuilt on every tick
RenderTimeoutRebuilds ==
    /\ pc = "loop"
    /\ queue = <<>>
    /\ vfdLog' = Logged(vfdLog, <<Display(GetNextFrame(ScrollingTextNew(text)))>>)
    /\ tick' = [kind |-> "timeout", recv |-> <<>>, repeat |-> FALSE,
                calls |-> <<Display(GetNextFrame(ScrollingTextNew(text)))>>, built |-> FALSE]
    /\ scroller' = GetNextState(ScrollingTextNew(text))
    /\ pulls' = CountPull(pulls)
    /\ UNCHANGED <<queue, received, text, vdState>>
    /\ UNCHANGED LoopFixed

\* recv_timeout returned Err (timeout or disconnected): one frame
RenderTimeout ==
    /\ pc = "loop"
    /\ queue = <<>>
    /\ vfdLog' = Logged(vfdLog, <<Display(GetNextFrame(scroller))>>)
    /\ tick' = [kind |-> "timeout", recv |-> <<>>, repeat |-> FALSE,
                calls |-> <<Display(GetNextFrame(scroller))>>, built |-> FALSE]
    /\ scroller' = GetNextState(scroller)
    /\ pulls' = CountPull(pulls)
    /\ UNCHANGED <<queue, received, text, vdState>>
    /\ UNCHANGED LoopFixed

\* variant: a payload equal to text leaves the loop
RenderDuplicateBreaks ==
    /\ pc = "loop"
    /\ queue # <<>>
    /\ Head(queue) = text
    /\ queue' = Tail(queue)
    /\ received' = Append(received, Head(queue))
    /\ tick' = [kind |-> "dup", recv |-> Head(queue), repeat |-> IsRepeat(Head(queue)),
                calls |-> <<>>, built |-> FALSE]
    /\ pc' = "exit"
    /\ UNCHANGED <<vfdLog, text, scroller, pulls, vdState>>
    /\ UNCHANGED <<load_i, wifiErr, sent, events, wifiCall, evt>>

\* a payload equal to text: continue
RenderDuplicate ==
    /\ pc = "loop"
    /\ queue # <<>>
    /\ Head(queue) = text
    /\ queue' = Tail(queue)
    /\ received' = Append(received, Head(queue))
    /\ tick' = [kind |-> "dup", recv |-> Head(queue), repeat |-> IsRepeat(Head(queue)),
                calls |-> <<>>, built |-> FALSE]
    /\ UNCHANGED <<vfdLog, text, scroller, pulls, vdState>>
    /\ UNCHANGED LoopFixed

\* a payload that differs from text: power command, new text, new engine, one frame
RenderAccept ==
    /\ pc = "loop"
    /\ queue # <<>>
    /\ Head(queue) # text
    /\ LET t == Head(queue)
           power == IF AllBlank(t) THEN VdOff ELSE VdOn
           fresh == ScrollingTextNew(text')
       IN /\ queue' = Tail(queue)
          /\ received' = Append(received, t)
          /\ text' = PadText(t)
          /\ vfdLog' = Logged(vfdLog, <<power, Display(GetNextFrame(fresh))>>)
          /\ tick' = [kind |-> "accept", recv |-> t, repeat |-> IsRepeat(t),
                      calls |-> <<power, Display(GetNextFrame(fresh))>>, built |-> TRUE]
          /\ scroller' = GetNextState(fresh)
          /\ pulls' = 1
          /\ vdState' = IF power = VdOff THEN "off" ELSE "on"
    /\ UNCHANGED LoopFixed

\* ================================================================ claims
Hello == <<72, 69, 76, 76, 79>>
HelloPadded == <<72, 69, 76, 76, 79, 46, 46, 46, 46, 46, 46, 46>>
ElloH == <<69, 76, 76, 79, 46, 46, 46, 46, 46, 46, 46, 72>>

IsPower(c) == c.op \in {"vd_on", "vd_off"}
PowerCmds(calls) == SelectSeq(calls, IsPower)
IsFrame(c) == c.op = "display"
Frames(calls) == SelectSeq(calls, IsFrame)
Received == tick.kind \in {"dup", "accept"}
Iterated == tick.kind \in {"timeout", "dup", "accept"}
Suffix(s, n) == SubSeq(s, Len(s) - n + 1, Len(s))
Min(a, b) == IF a < b THEN a ELSE b
\* s rotated left by k places
Rot(s, k) == SubSeq(s, k + 1, Len(s)) \o SubSeq(s, 1, k)

\* C1: a payload received right after the same payload issues no power
\* command and constructs no new engine, whatever its length.
C1_Idempotence ==
    (Received /\ tick.repeat) => (PowerCmds(tick.calls) = <<>> /\ ~tick.built)

\* C2: every iteration of the render loop (timeout, accepted payload,
\* discarded duplicate) writes exactly one frame to the display.
C2_OneFramePerIteration ==
    Iterated => Len(Frames(tick.calls)) = 1

\* C3: in every state of the render loop the engine's source text has at
\* least FRAME_WIDTH characters and the offset is inside the text.
C3_SourceNonEmpty ==
    pc = "loop" => (Len(scroller.text) >= FRAME_WIDTH /\ scroller.idx < Len(scroller.text))

\* C4: an accepted payload issues exactly one power command, power-off
\* exactly when all its characters are space, '.' or ','.
C4_BlankClassification ==
    tick.kind = "accept" =>
        /\ Len(PowerCmds(tick.calls)) = 1
        /\ (PowerCmds(tick.calls)[1] = VdOff
              <=> \A k \in 1..Len(tick.recv) : tick.recv[k] \in {32, 46, 44})
        /\ (PowerCmds(tick.calls)[1] = VdOn
              <=> \E k \in 1..Len(tick.recv) : tick.recv[k] \notin {32, 46, 44})

C4_Witness ==
    /\ tick.kind = "accept"
    /\ tick.recv = <<46, 32, 44>>
    /\ tick.calls[1] = VdOff

\* C5: what the render loop has dequeued, followed by what is still queued,
\* is exactly what was sent, in order; an iteration dequeues the head only.
C5_Ordering ==
    [][ /\ received' \o queue' = sent'
        /\ (received' # received =>
              /\ queue # <<>>
              /\ received' = Append(received, Head(queue))
              /\ queue' = Tail(queue)) ]_vars

C5_Witness ==
    /\ Len(received) = 1
    /\ Len(queue) = 1
    /\ Received
    /\ received[1] # queue[1]
    /\ sent = <<received[1], queue[1]>>

\* C6: after a payload shorter than FRAME_WIDTH is accepted, DisplayText is
\* the payload followed by '.' only and has exactly FRAME_WIDTH characters;
\* a payload of FRAME_WIDTH or more is taken unchanged.
C6_Padding ==
    tick.kind = "accept" =>
        IF Len(tick.recv) < FRAME_WIDTH
        THEN /\ Len(text) = FRAME_WIDTH
             /\ SubSeq(text, 1, Len(tick.recv)) = tick.recv
             /\ \A k \in (Len(tick.recv) + 1)..Len(text) : text[k] = 46
        ELSE text = tick.recv

\* C7: for a source text T with FRAME_WIDTH <= len(T), the k-th frame pulled
\* after construction (k = 0, 1, ...) is the FRAME_WIDTH characters of T T
\* that start at offset k mod len(T).
C7_FrameSequence ==
    (pc = "loop" /\ tick.kind \in {"timeout", "accept"} /\ pulls < MaxPulls
       /\ Len(scroller.text) >= FRAME_WIDTH) =>
        LET T == scroller.text
            o == (pulls - 1) % Len(T)
            f == tick.calls[Len(tick.calls)]
        IN /\ f.op = "display"
           /\ Len(f.frame) = FRAME_WIDTH
           /\ f.frame = SubSeq(T \o T, o + 1, o + FRAME_WIDTH)

\* the frame at offset len(T) has wrapped to the first frame again
C7_Witness ==
    /\ tick.kind = "timeout"
    /\ Len(scroller.text) > FRAME_WIDTH
    /\ pulls = Len(scroller.text) + 1
    /\ tick.calls = <<Display(SubSeq(scroller.text, 1, FRAME_WIDTH))>>

\* C8: when "HELLO" is the first payload received and nothing has been
\* received since, the display has seen power-on, "HELLO.......",
\* "ELLO.......H", ... : the tick that accepts it issues power-on then the
\* first frame, every later tick exactly the next cyclic window.
C8_FirstMessage ==
    (pc = "loop" /\ received = <<Hello>> /\ pulls < MaxPulls) =>
        LET expected == <<VdOn>> \o [j \in 1..pulls |-> Display(Rot(HelloPadded, (j - 1) % 12))]
            n == Min(pulls + 1, MaxLog)
        IN /\ pulls >= 1
           /\ Suffix(vfdLog, n) = Suffix(expected, n)
           /\ (pulls = 1 => tick.calls = <<VdOn, Display(HelloPadded)>>)
           /\ (pulls = 2 => tick.calls = <<Display(ElloH)>>)
           /\ (pulls > 1 => tick.calls = <<expected[pulls + 1]>>)

C8_Witness ==
    /\ received = <<Hello>>
    /\ pulls = 2
    /\ Suffix(vfdLog, 3) = <<VdOn, Display(HelloPadded), Display(ElloH)>>
    /\ tick.calls = <<Display(ElloH)>>

\* C9: from the acceptance of " " on, until a payload with a non-blank
\* character is accepted, no power-on is issued and every iteration writes
\* one frame.
BlankSince ==
    /\ \E i \in 1..Len(received) : received[i] = <<32>>
    /\ \A i \in 1..Len(received) : AllBlank(received[i])
C9_BlankMessage ==
    (pc = "loop" /\ BlankSince /\ Iterated) =>
        /\ \A k \in 1..Len(tick.calls) : tick.calls[k] # VdOn
        /\ (tick.kind = "accept" /\ tick.recv = <<32>> => tick.calls[1] = VdOff)
        /\ Len(Frames(tick.calls)) = 1

\* C10: once a wireless call of connect_wifi has returned an error, that
\* step wrote nothing to the display and ended the program, nothing was or
\* will be enqueued or rendered, and no further step is taken.
C10_FailureSemantics ==
    [][ /\ wifiErr = "none"
        /\ (wifiErr' # "none" =>
              /\ pc' = "exit"
              /\ vfdLog' = vfdLog
              /\ tick'.calls = <<>>
              /\ load_i' = load_i
              /\ events' = 0 /\ sent' = <<>> /\ received' = <<>>) ]_vars

C10_Witness ==
    /\ wifiErr = "is_connected"
    /\ pc = "exit"
    /\ load_i = 2
    /\ vfdLog[Len(vfdLog)] = Display(ProgressFrame(1))

WaitPcs == {"wait_stopped", "wait_started", "wait_connected", "wait_up"}
ConnectPcs == WaitPcs \cup {"set_configuration", "stop", "start", "connect", "confirm"}
HasStar(c) == c.op = "display" /\ \E k \in 1..Len(c.frame) : c.frame[k] = 42
IsProgress(c) ==
    /\ c.op = "display"
    /\ Len(c.frame) = 12
    /\ \A k \in 1..12 : c.frame[k] \in {42, 79}
    /\ Cardinality({k \in 1..12 : c.frame[k] = 42}) = 1
Marker(c) == CHOOSE k \in 0..11 : c.frame[k + 1] = 42
\* the readiness query of this step says "keep waiting"
Pending ==
    \/ pc = "wait_stopped" /\ wifiCall'.res = "true"
    \/ pc \in WaitPcs \ {"wait_stopped"} /\ wifiCall'.res = "false"
RenderIter == RenderTimeout \/ RenderDuplicate \/ RenderAccept

\* C11: the progress counter stays in 0..11; every frame with a marker has
\* 12 slots, one '*' and eleven 'O'; a poll that is still pending writes
\* exactly one such frame at the counter's slot, any other poll writes none;
\* consecutive progress frames move the marker by one modulo 12.
C11_ProgressIndicator ==
    [][ /\ load_i' \in 0..11
        /\ \A i \in 1..Len(vfdLog') : HasStar(vfdLog'[i]) => IsProgress(vfdLog'[i])
        /\ \A i \in 1..(Len(vfdLog') - 1) :
             (IsProgress(vfdLog'[i]) /\ IsProgress(vfdLog'[i + 1]))
                => Marker(vfdLog'[i + 1]) = (Marker(vfdLog'[i]) + 1) % 12
        /\ (pc \in WaitPcs =>
              IF Pending
              THEN /\ pc' = pc
                   /\ Len(tick'.calls) = 1
                   /\ IsProgress(tick'.calls[1])
                   /\ Marker(tick'.calls[1]) = load_i
                   /\ vfdLog'[Len(vfdLog')] = tick'.calls[1]
                   /\ load_i' = (load_i + 1) % 12
              ELSE /\ tick'.calls = <<>>
                   /\ vfdLog' = vfdLog
                   /\ load_i' = load_i) ]_vars

\* the marker has wrapped from slot 11 to slot 0, in the last waiting stage
C11_Witness ==
    /\ pc = "wait_up"
    /\ load_i = 1
    /\ tick.kind = "progress"
    /\ Suffix(vfdLog, 2) = <<Display(ProgressFrame(11)), Display(ProgressFrame(0))>>

\* C12: no step of the delivery context changes DisplayText, the scroll
\* state, the power state, the display or the loop's position; an event that
\* is not a forwarded message enqueues nothing; the render loop never leaves
\* the loop and can always run an iteration, whatever payloads arrived.
Forwards(e) ==
    /\ e.kind = "received"
    /\ e.topic.some
    /\ \E i \in 1..Len(e.topic.val) :
         /\ i + 7 <= Len(e.topic.val)
         /\ \A j \in 0..7 : e.topic.val[i + j] = SetText[j + 1]
C12_FailureAbsorbed ==
    /\ [](pc = "loop" => ENABLED RenderIter)
    /\ [][ /\ (events' # events =>
                 /\ UNCHANGED <<pc, text, scroller, pulls, vdState, vfdLog, tick, received>>
                 /\ (~Forwards(evt') => UNCHANGED <<queue, sent>>))
           /\ (pc = "loop" => pc' = "loop") ]_vars

\* an event that was not forwarded, then a valid message delivered and shown
C12_Witness ==
    /\ pc = "loop"
    /\ events = 2
    /\ Forwards(evt)
    /\ sent = <<Hello>>
    /\ tick.kind = "accept"
    /\ tick.calls = <<VdOn, Display(HelloPadded)>>

\* C13: while the client exists a message event can always be handled,
\* whatever is queued and wherever the render loop is, and a message on the
\* set-text topic is appended to the queue in that one step.
C13_SendNeverWaits ==
    /\ []((pc \in {"vd_off", "loop"} /\ events < MaxEvents) => ENABLED MqttReceived)
    /\ [][ (events' # events /\ Forwards(evt')) =>
              /\ Len(queue') = Len(queue) + 1
              /\ SubSeq(queue', 1, Len(queue)) = queue ]_vars

C13_Witness ==
    /\ pc = "loop"
    /\ tick.kind = "timeout"
    /\ Len(queue) = 2

\* C14: once the render loop has started, iterations keep happening for
\* ever, also when no message ever arrives, and the loop is never left.
C14_LoopRunsForever ==
    /\ (<>(pc = "loop") => []<><<RenderIter>>_vars)
    /\ [][pc = "loop" => pc' = "loop"]_vars

C14_Witness ==
    /\ pc = "loop"
    /\ sent = <<>>
    /\ tick.kind = "timeout"
    /\ pulls >= MaxPulls

\* C15: while connect_wifi runs nothing is enqueued, delivered or rendered;
\* connect_wifi is entered once and left for main only after its last stage;
\* once the render loop runs no wireless call is made and no progress frame
\* is written.
C15_StartupOrdering ==
    [][ /\ (pc \in ConnectPcs =>
              /\ UNCHANGED <<queue, sent, received, events, evt, text, scroller, pulls>>
              /\ tick'.kind \notin {"timeout", "dup", "accept"})
        /\ (pc' \in ConnectPcs => (pc \in ConnectPcs /\ pc' # "set_configuration"))
        /\ (pc' = "get_mac" =>
              (pc = "confirm" /\ wifiErr = "none" /\ wifiCall = [op |-> "is_up", res |-> "true"]))
        /\ ((events' # events \/ tick'.kind \in {"timeout", "dup", "accept"}) =>
              (pc \in {"subscribe", "vd_off", "loop"} /\ wifiErr = "none"))
        /\ (tick'.kind \in {"timeout", "dup", "accept"} => pc = "loop")
        /\ (pc = "loop" =>
              /\ pc' = "loop"
              /\ UNCHANGED <<wifiCall, load_i, wifiErr>>
              /\ \A k \in 1..Len(tick'.calls) : ~HasStar(tick'.calls[k])) ]_vars

C15_Witness ==
    /\ pc = "loop"
    /\ events = 2
    /\ tick.kind = "accept"
    /\ wifiCall = [op |-> "is_up", res |-> "true"]

\* C16: an accepted payload builds a fresh engine from the new padded text
\* and the frame written in that iteration is the first FRAME_WIDTH
\* characters of the new text.
C16_ScrollReset ==
    tick.kind = "accept" =>
        /\ tick.built
        /\ scroller.text = text
        /\ pulls = 1
        /\ Len(text) >= FRAME_WIDTH
        /\ tick.calls[Len(tick.calls)] = Display(SubSeq(text, 1, FRAME_WIDTH))

C18_TopicFiltering ==
    [][ events' # events =>
          /\ UNCHANGED <<pc, text, scroller, pulls, vdState, vfdLog, tick, received>>
          /\ IF Forwards(evt')
             THEN /\ queue' = queue \o <<FromUtf8Lossy(evt'.data)>>
                  /\ sent' = sent \o <<FromUtf8Lossy(evt'.data)>>
             ELSE UNCHANGED <<queue, sent>> ]_vars

\* the invalid byte FF on the set-text topic was forwarded as U+FFFD
C18_Witness ==
    /\ evt.kind = "received"
    /\ evt.topic.some
    /\ evt.data = <<255>>
    /\ Len(queue) = 2
    /\ queue[2] = <<65533>>

\* C19: in the render loop the display is powered on exactly when
\* DisplayText has a character other than space, '.' and ','.
C19_PowerMatchesText ==
    pc = "loop" =>
        (vdState = "on" <=> \E k \in 1..Len(text) : text[k] \notin {32, 46, 44})

\* the padded form of the current text arrived and was discarded, display on
C19_Witness ==
    /\ pc = "loop"
    /\ vdState = "on"
    /\ tick.kind = "dup"
    /\ received = <<Hello, HelloPadded>>

\* C20: the stages Disconnected(0), Configured(1), Started(2), Connected(3),
\* NetifUp(4) are passed one by one, each on the observation that ends it;
\* start follows "not started", connect follows "started", success follows
\* "netif up"; each predicate is polled in its own stage only.
StageOf(p) ==
    CASE p = "set_configuration" -> 0
      [] p \in {"stop", "wait_stopped", "start", "wait_started"} -> 1
      [] p \in {"connect", "wait_connected"} -> 2
      [] p = "wait_up" -> 3
      [] p \in {"confirm", "get_mac"} -> 4
Obs(op, r) == [op |-> op, res |-> r]
\* the observation on which stage n is entered
Entered(n) ==
    CASE n = 1 -> Obs("set_configuration", "ok")
      [] n = 2 -> Obs("is_started", "true")
      [] n = 3 -> Obs("is_connected", "true")
      [] n = 4 -> Obs("is_up", "true")
C20_StagesMonotonic ==
    [][ (pc \in ConnectPcs) =>
          /\ pc' \in ConnectPcs \cup {"get_mac", "exit"}
          /\ (pc' # "exit" =>
                /\ StageOf(pc') \in {StageOf(pc), StageOf(pc) + 1}
                /\ (StageOf(pc') # StageOf(pc) =>
                      wifiCall' = Entered(StageOf(pc'))))
          /\ (pc' = "exit" => wifiCall'.res = "err")
          /\ (pc # "confirm" =>
                /\ (wifiCall'.op = "stop" => wifiCall = Obs("set_configuration", "ok"))
                /\ (wifiCall'.op = "start" => wifiCall = Obs("is_started", "false"))
                /\ (wifiCall'.op = "connect" => wifiCall = Obs("is_started", "true"))
                /\ (wifiCall'.op = "is_started" => StageOf(pc) = 1)
                /\ (wifiCall'.op = "is_connected" => StageOf(pc) = 2)
                /\ (wifiCall'.op = "is_up" => StageOf(pc) = 3))
          /\ (pc' = "get_mac" => (pc = "confirm" /\ wifiCall = Obs("is_up", "true"))) ]_vars

C20_Witness ==
    /\ pc = "confirm"
    /\ load_i = 4
    /\ wifiCall = Obs("is_up", "true")

Init ==
    /\ pc = "set_configuration"
    /\ load_i = 0
    /\ wifiErr = "none"
    /\ vfdLog = <<Display(Initializing)>>
    /\ tick = NoTick
    /\ queue = <<>>
    /\ sent = <<>>
    /\ received = <<>>
    /\ events = 0
    /\ text = <<>>
    /\ scroller = [text |-> <<>>, idx |-> 0]
    /\ pulls = 0
    /\ vdState \in {"on", "off"}
    /\ wifiCall = [op |-> "none", res |-> "ok"]
    /\ evt = [kind |-> "none", topic |-> None, data |-> <<>>]

Next ==
    \/ SetConfiguration
    \/ Stop
    \/ PollStopped
    \/ Start
    \/ PollStarted
    \/ Connect
    \/ PollConnected
    \/ PollUp
    \/ Confirm
    \/ GetMac
    \/ MqttNew
    \/ Subscribe
    \/ LoopStart
    \/ MqttReceived
    \/ MqttOther
    \/ RenderTimeout
    \/ RenderDuplicate
    \/ RenderAccept

Spec == Init /\ [][Next]_vars

\* the program with the smaller set of message data
LiveNext ==
    \/ SetConfiguration
    \/ Stop
    \/ PollStopped
    \/ Start
    \/ PollStarted
    \/ Connect
    \/ PollConnected
    \/ PollUp
    \/ Confirm
    \/ GetMac
    \/ MqttNew
    \/ Subscribe
    \/ LoopStart
    \/ MqttReceivedLive
    \/ MqttOther
    \/ RenderTimeout
    \/ RenderDuplicate
    \/ RenderAccept

\* the render loop's thread is scheduled and recv_timeout returns within 500 ms
LiveSpec == Init /\ [][LiveNext]_vars /\ WF_vars(RenderTimeout \/ RenderDuplicate \/ RenderAccept)
====
